---------------------------- MODULE Spec2Model ----------------------------
(***************************************************************************)
(* A model of d1-temp.ino: the temperature/humidity reporter for the       *)
(* ESP8266.  The device loads the address of its MQ server from flash,     *)
(* keeps a connection to it, samples a DHT22 once a minute, publishes the  *)
(* reading, and serves a small HTTP page through which the MQ address can  *)
(* be changed.                                                             *)
(*                                                                         *)
(* Strings are sequences of one-character strings.  Temperatures and       *)
(* humidities are integers in tenths (the DHT22's resolution); times are   *)
(* milliseconds.                                                           *)
(***************************************************************************)
EXTENDS Integers, Sequences, FiniteSets, TLC

VARIABLES
    pc,                \* where the sketch is: boot, top, reconnect, poll, sample, http
    fs_ok,             \* whether SPIFFS is mounted, so that SPIFFS.open succeeds
    file,              \* the content of /mq.addr in flash, or NoFile
    mqtt_server,       \* char mqtt_server[64], read as a C string
    connected,         \* client.connected()
    last_temperature,  \* static double last_temperature
    last_humidity,     \* static double last_humidity
    last_read,         \* static long last_read of loop()
    ms,                \* millis(), as the long that loop() stores it in
    retries,           \* failed connection attempts since boot
    out,               \* what the last step of the sketch sent, wrote or waited for
    last_mq,           \* the value of the last /?mq= request handled, or NoReq
    last_sample,       \* the last successful sensor reading since boot, or NoSample
    sampled,           \* the values of millis() at which measureDHT was called since boot
    probe              \* the config store on its own: what was written and read

vars == <<pc, fs_ok, file, mqtt_server, connected, last_temperature,
          last_humidity, last_read, ms, retries, out, last_mq, last_sample,
          sampled, probe>>

----------------------------------------------------------------------------
(* Bounds of the model. *)

\* The longest run of value characters in a request line.
MaxValueLen == 65
\* The most bytes of neighbouring memory a read past an unterminated buffer finds.
MaxJunk == 1
\* Failed connection attempts per boot.
MaxRetries == 1
\* The uptime, in milliseconds, up to which the sketch is followed.
MaxMillis == 70000
\* The time setup() takes (joining the WiFi network), in milliseconds.
BootMillis == 1000
\* The longest string of the config store's round trip built from StoreChars.
MaxStoreLen == 2
\* The uptime, in milliseconds, of the run over which the samples are counted.
RunMillis == 185000
\* The reads of the sensor per boot up to which the sketch is followed.
MaxSamples == 5

----------------------------------------------------------------------------
(* Constants of the program. *)

\* sizeof(mqtt_server)
ServerSize == 64
\* sizeof(tmp) in processHTTPRequest
TmpSize == 64
\* delay(5000) after a failed connection attempt
RetryDelay == 5000
\* 60 * 1000: the sampling period
SamplePeriod == 60000
\* DHTLIB_OK
DHTLIB_OK == 0
\* The value of last_temperature and last_humidity before any reading: -1, in tenths.
NoReading == -10

SP == " "
AMP == "&"
CR == "\r"
LF == "\n"

DEFAULT_MQ_SERVER == <<"1", "0", ".", "0", ".", "0", ".", "1", "0">>
Pattern == <<"/", "?", "m", "q", "=">>

NoFile == "NoFile"
NoReq == "NoReq"
NoSample == <<>>
NoProbe == [s |-> <<>>, r |-> <<>>, step |-> "none"]

\* The return codes of dht::read22 other than DHTLIB_OK: checksum, timeout,
\* connect, ack-low, ack-high, and one the switch does not name.
DHTLIB_ERROR_CHECKSUM == -1
DHTLIB_ERROR_TIMEOUT == -2
DHTLIB_ERROR_CONNECT == -3
DHTLIB_ERROR_ACK_L == -4
DHTLIB_ERROR_ACK_H == -5
DHTLIB_ERROR_OTHER == -9
ErrorCodes == {DHTLIB_ERROR_CHECKSUM, DHTLIB_ERROR_TIMEOUT, DHTLIB_ERROR_CONNECT,
               DHTLIB_ERROR_ACK_L, DHTLIB_ERROR_ACK_H, DHTLIB_ERROR_OTHER}

----------------------------------------------------------------------------
(* Strings. *)

Rep(c, n) == [i \in 1..n |-> c]

\* String::indexOf and strstr: the place of the first occurrence of pat in s
\* (1-based), or 0 when there is none (-1, NULL).
IndexOf(s, pat) ==
    LET hits == {i \in 1..(Len(s) - Len(pat) + 1) :
                     SubSeq(s, i, i + Len(pat) - 1) = pat}
    IN  IF hits = {} THEN 0 ELSE CHOOSE i \in hits : \A j \in hits : i <= j

\* strncpy(dst, src, n) into a zeroed dst: at most n characters of src.
StrNCpy(src, n) == IF Len(src) <= n THEN src ELSE SubSeq(src, 1, n)

\* String::readStringUntil(c) on a stream holding s: the characters before
\* the first c, or all of s when it holds none.
UntilChar(s, c) ==
    LET k == IndexOf(s, <<c>>)
    IN  IF k = 0 THEN s ELSE SubSeq(s, 1, k - 1)

\* The loop of read_file: the characters of line other than \n and \r.
StripEOL(line) == SelectSeq(line, LAMBDA c : c # LF /\ c # CR)


----------------------------------------------------------------------------
(* The config store: write_file and read_file on /mq.addr. *)

\* write_file: when the file opens, println(data) replaces its content with
\* data and "\r\n"; when it does not open, nothing is written.
write_file(f, ok, data) == IF ok THEN data \o <<CR, LF>> ELSE f

\* read_file without its filter: the first line as readStringUntil returns it.
read_file_Unfiltered(f, ok) ==
    IF ok /\ f # NoFile THEN UntilChar(f, LF) ELSE <<>>

\* read_file: the first line of the file without its \r and \n, or the empty
\* string when the file does not open.
read_file(f, ok) ==
    LET first == IF ok /\ f # NoFile THEN UntilChar(f, LF) ELSE <<>>
    IN  StripEOL(first)

\* setup() without its else branch: the address is whatever read_file returned.
LoadServer_NoDefault(loaded) == loaded

\* setup(): the address made live from what read_file returned.  strcpy copies
\* mq_str whatever its length.
LoadServer(loaded) ==
    IF Len(loaded) > 0 THEN loaded
    ELSE StrNCpy(DEFAULT_MQ_SERVER, ServerSize - 1)

----------------------------------------------------------------------------
(* processHTTPRequest: the request line and the value of mq. *)

HasPattern(line) == IndexOf(line, Pattern) # 0

\* s after "s += strlen(pattern)": the request line past the first "/?mq=".
AfterPattern(line) ==
    SubSeq(line, IndexOf(line, Pattern) + Len(Pattern), Len(line))

\* The for loop over s: each character is stored at tmp[strlen(tmp)] until a
\* space or an '&' ends the loop.  The loop tests nothing else: it breaks at
\* the first space or '&', or ends with s, and the result is every character
\* before that, however many.
CopyLoop(s) ==
    LET breaks == {i \in 1..Len(s) : s[i] = SP \/ s[i] = AMP}
        n == IF breaks = {} THEN Len(s)
             ELSE (CHOOSE i \in breaks : \A j \in breaks : i <= j) - 1
    IN  SubSeq(s, 1, n)

\* The characters the loop stores for a request line.
Stored(line) == CopyLoop(AfterPattern(line))

\* tmp keeps its terminating '\0' only while fewer than sizeof(tmp) characters
\* are stored.
Terminated(b) == Len(b) < TmpSize

\* The bytes found behind an unterminated tmp, up to the next '\0'.
Junk == {Rep("#", n) : n \in 0..MaxJunk}

\* tmp read as a C string by write_file and strncpy: what was stored, and,
\* when the terminator was overwritten, whatever follows in memory.
SeenAs(buf) == IF Terminated(buf) THEN {buf} ELSE {buf \o j : j \in Junk}

\* memset(mqtt_server, 0, 64); strncpy(mqtt_server, tmp, 63).
NewServer(seen) == StrNCpy(seen, ServerSize - 1)

----------------------------------------------------------------------------
(* Numbers. *)

\* String(double) and Print::println(double): two decimal places.  x is in
\* tenths.
Print2(x) ==
    LET a == IF x < 0 THEN -x ELSE x
    IN  [neg |-> x < 0, int |-> a \div 10, frac |-> (a % 10) * 10]

\* The largest and the smallest long: 32 bits, two's complement.
MaxLong == 2147483647
MinLong == (-MaxLong) - 1

\* a + d on longs, d >= 0, wrapping around.
AddLong(a, d) ==
    IF a <= MaxLong - d THEN a + d
    ELSE ((a - MaxLong) - 1) + (d + MinLong)

\* a - b on longs, wrapping around.
SubLong(a, b) ==
    IF b > 0
    THEN IF a >= MinLong + b THEN a - b
         ELSE (a - MinLong) + ((MaxLong - b) + 1)
    ELSE IF a <= MaxLong + b THEN a - b
         ELSE ((a - MaxLong) - 1) + (MinLong - b)

\* abs(x) on a long: -x wraps around for the smallest long.
AbsLong(x) == IF x > 0 THEN x ELSE IF x = MinLong THEN MinLong ELSE -x

\* The test of loop() with >= for >: read 60 seconds ago or more.
Due_AtLeast(n, lr) == (lr = 0) \/ (AbsLong(SubLong(n, lr)) >= SamplePeriod)

\* The test of loop(): never read, or read more than 60 seconds ago.
Due(n, lr) == (lr = 0) \/ (AbsLong(SubLong(n, lr)) > SamplePeriod)


----------------------------------------------------------------------------
(* What the environment supplies. *)

GET == <<"G", "E", "T", " ">>
PUT == <<"P", "U", "T", " ">>
HTTP11 == <<" ", "H", "T", "T", "P", "/", "1", ".", "1">>

\* Values for mq: empty, short, as long as the buffers and longer, one holding
\* a line feed, and one holding the pattern again.
ValueLens == {0, 1} \cup ((TmpSize - 1)..MaxValueLen)
Values ==
    {Rep("a", n) : n \in ValueLens}
        \cup {<<"1", LF, "2">>, <<"b">> \o Pattern \o <<"c">>}

\* What precedes the value, and what follows it.
Heads == {GET \o Pattern, PUT \o <<"/", "x">> \o Pattern}
Tails == {HTTP11, <<"&", "f", "=", "1">> \o HTTP11, <<>>}

\* First lines without the pattern: the root, a path that only resembles the
\* pattern, and a client that sent nothing.
PlainRequests ==
    {GET \o <<"/">> \o HTTP11, PUT \o <<"/", "m", "q", "=", "a">> \o HTTP11, <<>>}

\* The first line of a request, as readStringUntil('\r') returns it.
Requests ==
    {(GET \o Pattern) \o v \o HTTP11 : v \in Values}
        \cup {h \o <<"a">> \o t : h \in Heads, t \in Tails}
        \cup PlainRequests

\* What dht::read22 returns: a code and, in tenths, temperature and humidity;
\* with an error code, the library's invalid value for both.
Readings == {<<215, 480>>, <<230, 555>>}
Invalid == <<-9990, -9990>>
Codes == {DHTLIB_OK} \cup ErrorCodes
ReadingsFor(c) == IF c = DHTLIB_OK THEN Readings ELSE {Invalid}

\* The time that may pass between two readings of millis(): none that it
\* shows, or more than the sampling period.
Delays == {0, SamplePeriod + 1000}

\* /mq.addr when the device is switched on, with the request that left it so:
\* never written, empty, or written by an earlier "/?mq=h".
InitialStores ==
    {<<NoFile, NoReq>>, <<<<>>, NoReq>>, <<<<"h", CR, LF>>, <<"h">>>>}

\* The value a request line carries: the characters after its first "/?mq="
\* up to the first space or '&'.
QueryValue(line) == UntilChar(UntilChar(AfterPattern(line), SP), AMP)

----------------------------------------------------------------------------
(* The state when the device is switched on. *)

Init ==
    /\ pc = "boot"
    /\ fs_ok \in BOOLEAN
    /\ \E st \in InitialStores : file = st[1] /\ last_mq = st[2]
    /\ mqtt_server = <<>>
    /\ connected = FALSE
    /\ last_temperature = NoReading
    /\ last_humidity = NoReading
    /\ last_read = 0
    /\ ms = 0
    /\ retries = 0
    /\ out = <<>>
    /\ last_sample = NoSample
    /\ sampled = <<>>
    /\ probe = NoProbe

\* A reset: the sketch's memory is as at power-on, the flash is kept.
ResetRAM ==
    /\ pc' = "boot"
    /\ mqtt_server' = <<>>
    /\ connected' = FALSE
    /\ last_temperature' = NoReading
    /\ last_humidity' = NoReading
    /\ last_read' = 0
    /\ ms' = 0
    /\ retries' = 0
    /\ last_sample' = NoSample
    /\ sampled' = <<>>
    /\ UNCHANGED <<fs_ok, file, last_mq, probe>>

\* The device is restarted.
Restart == pc # "boot" /\ ResetRAM /\ out' = <<>>

\* setup(): the MQ address is loaded from /mq.addr, or is the default.  A line
\* of 64 characters or more is copied past the end of mqtt_server: the sketch
\* goes on with the longer string, or goes down and the device resets.
Setup ==
    /\ pc = "boot"
    /\ LET mq_str == read_file(file, fs_ok)
       IN  \/ /\ mqtt_server' = LoadServer(mq_str)
              /\ ms' = BootMillis
              /\ pc' = "top"
              /\ out' = <<>>
              /\ UNCHANGED <<fs_ok, file, connected, last_temperature,
                             last_humidity, last_read, retries, last_mq,
                             last_sample, sampled, probe>>
           \/ /\ Len(mq_str) >= ServerSize
              /\ UNCHANGED vars


----------------------------------------------------------------------------
(* loop(): the connection. *)

\* The start of a pass without the test of client.connected(): reconnect() is
\* never called.
LoopTop_NoEnsure ==
    /\ pc = "top"
    /\ pc' = "poll"
    /\ out' = <<>>
    /\ UNCHANGED <<fs_ok, file, mqtt_server, connected, last_temperature,
                   last_humidity, last_read, ms, retries, last_mq, last_sample,
                   sampled, probe>>

\* The start of a pass: ArduinoOTA.handle(), then the test of
\* client.connected().
LoopTop ==
    /\ pc = "top"
    /\ pc' = IF connected THEN "poll" ELSE "reconnect"
    /\ out' = <<>>
    /\ UNCHANGED <<fs_ok, file, mqtt_server, connected, last_temperature,
                   last_humidity, last_read, ms, retries, last_mq, last_sample, sampled,
                   probe>>

\* client.connect(): an attempt to connect to the server whose address
\* setup() handed to client.setServer, the array mqtt_server as it now is.
Connect == <<"connect", mqtt_server>>

\* reconnect() without its client.subscribe("meta").
OnConnect_PublishOnly == << <<"publish", "meta">> >>

\* reconnect(), once client.connect has succeeded: the board's details are
\* published to "meta", and "meta" is subscribed to.
OnConnect == << <<"publish", "meta">>, <<"subscribe", "meta">> >>

\* reconnect(): client.connect succeeds, and the while loop ends.
ConnectOk ==
    /\ pc = "reconnect"
    /\ connected' = TRUE
    /\ out' = <<Connect>> \o OnConnect
    /\ pc' = "poll"
    /\ UNCHANGED <<fs_ok, file, mqtt_server, last_temperature, last_humidity,
                   last_read, ms, retries, last_mq, last_sample, sampled, probe>>

\* reconnect() falling back to the default address after a failed attempt.
ConnectFail_ToDefault(clock) ==
    /\ pc = "reconnect"
    /\ retries < MaxRetries
    /\ AddLong(ms, RetryDelay) \in clock
    /\ ms' = AddLong(ms, RetryDelay)
    /\ retries' = retries + 1
    /\ out' = << Connect, <<"delay", RetryDelay>> >>
    /\ mqtt_server' = DEFAULT_MQ_SERVER
    /\ UNCHANGED <<pc, fs_ok, file, connected, last_temperature,
                   last_humidity, last_read, last_mq, last_sample, sampled,
                   probe>>

\* reconnect() giving up after a failed attempt: the while loop is left.
ConnectFail_GiveUp(clock) ==
    /\ pc = "reconnect"
    /\ retries < MaxRetries
    /\ AddLong(ms, RetryDelay) \in clock
    /\ ms' = AddLong(ms, RetryDelay)
    /\ retries' = retries + 1
    /\ out' = << Connect, <<"delay", RetryDelay>> >>
    /\ pc' = "poll"
    /\ UNCHANGED <<fs_ok, file, mqtt_server, connected, last_temperature,
                   last_humidity, last_read, last_mq, last_sample, sampled,
                   probe>>

\* reconnect(): client.connect fails; delay(5000), and the while loop goes
\* round again.
ConnectFail(clock) ==
    /\ pc = "reconnect"
    /\ retries < MaxRetries
    /\ AddLong(ms, RetryDelay) \in clock
    /\ ms' = AddLong(ms, RetryDelay)
    /\ retries' = retries + 1
    /\ out' = << Connect, <<"delay", RetryDelay>> >>
    /\ UNCHANGED <<pc, fs_ok, file, mqtt_server, connected, last_temperature,
                   last_humidity, last_read, last_mq, last_sample, sampled, probe>>

\* callback(): the message is printed on the serial port.
callback(topic) == out' = << <<"callback", topic>> >>

\* client.loop() taking the MQ address from a message that arrived on "meta".
Poll_SetsServer ==
    /\ pc = "poll"
    /\ \E inbound \in BOOLEAN :
           IF connected /\ inbound
           THEN callback("meta") /\ mqtt_server' = <<"m">>
           ELSE out' = <<>> /\ mqtt_server' = mqtt_server
    /\ pc' = "sample"
    /\ UNCHANGED <<fs_ok, file, connected, last_temperature,
                   last_humidity, last_read, ms, retries, last_mq, last_sample,
                   sampled, probe>>

\* client.loop(): a message that arrived on "meta" is handed to callback.
Poll ==
    /\ pc = "poll"
    /\ \E inbound \in BOOLEAN :
           IF connected /\ inbound THEN callback("meta") ELSE out' = <<>>
    /\ pc' = "sample"
    /\ UNCHANGED <<fs_ok, file, mqtt_server, connected, last_temperature,
                   last_humidity, last_read, ms, retries, last_mq, last_sample, sampled,
                   probe>>

\* The connection to the MQ server is lost.
Drop ==
    /\ pc \in {"top", "poll", "sample", "http"}
    /\ connected
    /\ connected' = FALSE
    /\ out' = <<>>
    /\ UNCHANGED <<pc, fs_ok, file, mqtt_server, last_temperature,
                   last_humidity, last_read, ms, retries, last_mq, last_sample, sampled,
                   probe>>

----------------------------------------------------------------------------
(* loop(): the sensor. *)

\* The payload of the "temperature" topic.
Payload(temp, hum) == [temperature |-> Print2(temp), humidity |-> Print2(hum)]

\* measureDHT: what is published for a reading.
Published(c, t, h) ==
    IF c = DHTLIB_OK THEN << <<"publish", "temperature", Payload(t, h)>> >>
    ELSE <<>>

\* measureDHT storing the temperature whatever read22 returned.
NewTemperature_Always(c, t, h, old) == t

\* measureDHT: last_temperature after a reading.
NewTemperature(c, t, h, old) == IF c = DHTLIB_OK THEN t ELSE old

\* measureDHT: last_humidity after a reading ("last_humidity = DHT.temperature").
NewHumidity(c, t, h, old) == IF c = DHTLIB_OK THEN t ELSE old

measureDHT(chk, temperature, humidity) ==
    /\ out' = << <<"read22", chk, temperature, humidity>> >>
                  \o Published(chk, temperature, humidity)
    /\ last_temperature' =
           NewTemperature(chk, temperature, humidity, last_temperature)
    /\ last_humidity' = NewHumidity(chk, temperature, humidity, last_humidity)
    /\ last_sample' = IF chk = DHTLIB_OK THEN <<temperature, humidity>>
                      ELSE last_sample

\* The sensor is read when it never was, or was more than a minute ago.
\* millis() has moved on by one of delays since it was last looked at; the
\* sketch is followed while millis() is in clock.
Sample(delays, clock) ==
    /\ pc = "sample"
    /\ Len(sampled) < MaxSamples
    /\ \E d \in delays :
           /\ AddLong(ms, d) \in clock
           /\ ms' = AddLong(ms, d)
           /\ LET now == ms'
              IN  IF Due(now, last_read)
                  THEN /\ \E code \in Codes : \E r \in ReadingsFor(code) :
                              measureDHT(code, r[1], r[2])
                       /\ sampled' = Append(sampled, now)
                       /\ last_read' = now
                  ELSE /\ out' = <<>>
                       /\ UNCHANGED <<last_temperature, last_humidity,
                                       last_sample, sampled, last_read>>
    /\ pc' = "http"
    /\ UNCHANGED <<fs_ok, file, mqtt_server, connected, retries, last_mq, probe>>

----------------------------------------------------------------------------
(* loop(): the HTTP server. *)

\* redirectIndex: 302, to the root of this device.
redirectIndex == <<"response", 302, "http://<localIP>/">>

\* serveHTML: 200, the page showing the last reading.
serveHTML == <<"response", 200, Print2(last_temperature), Print2(last_humidity)>>

\* processHTTPRequest answering before it writes: redirectIndex is called
\* ahead of write_file.
processHTTPRequest_RespondFirst(request) ==
    IF HasPattern(request)
    THEN LET tmp == Stored(request)
         IN  \/ \E seen \in SeenAs(tmp) :
                    /\ file' = write_file(file, fs_ok, seen)
                    /\ mqtt_server' = NewServer(seen)
                    /\ out' = << <<"request", TRUE>>,
                                 <<"tmp", Len(tmp)>>,
                                 redirectIndex,
                                 <<"write_file", seen>> >>
                    /\ last_mq' = QueryValue(request)
                    /\ pc' = "top"
                    /\ UNCHANGED <<fs_ok, connected, last_temperature,
                                   last_humidity, last_read, ms, retries,
                                   last_sample, sampled, probe>>
             \/ /\ Len(tmp) > TmpSize
                /\ ResetRAM
                /\ out' = << <<"request", TRUE>>, <<"tmp", Len(tmp)>> >>
    ELSE /\ out' = << <<"request", FALSE>>, serveHTML >>
         /\ pc' = "top"
         /\ UNCHANGED <<fs_ok, file, mqtt_server, connected, last_temperature,
                        last_humidity, last_read, ms, retries, last_mq,
                        last_sample, sampled, probe>>

\* processHTTPRequest for the first line of a request.  With the pattern, the
\* value is copied to tmp, written to /mq.addr and made the MQ address, and the
\* client is redirected; storing more than sizeof(tmp) characters writes past
\* tmp, and the sketch may go down before it has done any of this.
processHTTPRequest(request) ==
    IF HasPattern(request)
    THEN LET tmp == Stored(request)
         IN  \/ \E seen \in SeenAs(tmp) :
                    /\ file' = write_file(file, fs_ok, seen)
                    /\ mqtt_server' = NewServer(seen)
                    /\ out' = << <<"request", TRUE>>,
                                 <<"tmp", Len(tmp)>>,
                                 <<"write_file", seen>>,
                                 redirectIndex >>
                    /\ last_mq' = QueryValue(request)
                    /\ pc' = "top"
                    /\ UNCHANGED <<fs_ok, connected, last_temperature,
                                   last_humidity, last_read, ms, retries,
                                   last_sample, sampled, probe>>
             \/ /\ Len(tmp) > TmpSize
                /\ ResetRAM
                /\ out' = << <<"request", TRUE>>, <<"tmp", Len(tmp)>> >>
    ELSE /\ out' = << <<"request", FALSE>>, serveHTML >>
         /\ pc' = "top"
         /\ UNCHANGED <<fs_ok, file, mqtt_server, connected, last_temperature,
                        last_humidity, last_read, ms, retries, last_mq,
                        last_sample, sampled, probe>>

\* server.available() returns a client, whose request is processed.
Http(requests) ==
    /\ pc = "http"
    /\ \E rq \in requests : processHTTPRequest(rq)

\* server.available() returns no client.
NoClient ==
    /\ pc = "http"
    /\ pc' = "top"
    /\ out' = <<>>
    /\ UNCHANGED <<fs_ok, file, mqtt_server, connected, last_temperature,
                   last_humidity, last_read, ms, retries, last_mq,
                   last_sample, sampled, probe>>

----------------------------------------------------------------------------
(* The sketch. *)

NextOf(reqs, ds, clk) ==
    \/ Setup
    \/ LoopTop
    \/ ConnectOk
    \/ ConnectFail(clk)
    \/ Poll
    \/ Sample(ds, clk)
    \/ Http(reqs)
    \/ NoClient
    \/ Drop
    \/ Restart

Next == NextOf(Requests, Delays, 0..MaxMillis)

Spec == Init /\ [][Next]_vars


----------------------------------------------------------------------------
(* The config store on its own: write_file, then read_file. *)

\* Strings to store: every string of up to MaxStoreLen of these characters,
\* and the longest that fits the buffers.
StoreChars == {"a", ".", SP, AMP, CR, LF}
StoreStrings ==
    UNION {[1..k -> StoreChars] : k \in 1..MaxStoreLen}
        \cup {Rep("a", ServerSize - 1)}

\* write_file("/mq.addr", str).
StoreWrite(str) ==
    /\ file' = write_file(file, fs_ok, str)
    /\ probe' = [s |-> str, r |-> <<>>, step |-> "written"]
    /\ UNCHANGED <<pc, fs_ok, mqtt_server, connected, last_temperature,
                   last_humidity, last_read, ms, retries, out, last_mq,
                   last_sample, sampled>>

\* read_file("/mq.addr"), after a write.
StoreRead ==
    /\ probe.step = "written"
    /\ probe' = [probe EXCEPT !.r = read_file(file, fs_ok), !.step = "read"]
    /\ UNCHANGED <<pc, fs_ok, file, mqtt_server, connected, last_temperature,
                   last_humidity, last_read, ms, retries, out, last_mq,
                   last_sample, sampled>>

NextStore ==
    \/ \E w \in StoreStrings : StoreWrite(w)
    \/ StoreRead

SpecStore == Init /\ [][NextStore]_vars

----------------------------------------------------------------------------
(* The sketch over a run of 185 seconds. *)

\* Between two looks at millis(): no time that shows, exactly the sampling
\* period, or one millisecond more.
CadenceDelays == {0, SamplePeriod, SamplePeriod + 1}

\* A request for the page, and one that sets the MQ address.
CadenceRequests ==
    {GET \o <<"/">> \o HTTP11, (GET \o Pattern) \o <<"a">> \o HTTP11}

NextCadence == NextOf(CadenceRequests, CadenceDelays, 0..RunMillis)

SpecCadence == Init /\ [][NextCadence]_vars

----------------------------------------------------------------------------
(* The sketch over the whole range of millis(). *)

\* Between two looks at millis(): half the sampling period, one millisecond
\* more than the period, and two spans of some 24.8 days that together take
\* millis(), as a long, from the end of setup() round to one sampling period
\* and a millisecond before 0.
HalfPeriod == SamplePeriod \div 2
WrapDelays ==
    {HalfPeriod, SamplePeriod + 1, MaxLong,
     ((MaxLong - BootMillis) - SamplePeriod) + 1}

\* A request for the page.
WrapRequests == {GET \o <<"/">> \o HTTP11}

\* The values of millis(), as a long, at which the sketch is followed: the
\* sampling period after the smallest long, and from a sampling period and a
\* millisecond before 0 to half a period after it.
WrapClock ==
    (MinLong..(MinLong + SamplePeriod))
        \cup ((-(SamplePeriod + 1))..HalfPeriod)

NextWrap == NextOf(WrapRequests, WrapDelays, WrapClock)

SpecWrap == Init /\ [][NextWrap]_vars

----------------------------------------------------------------------------
(* Properties. *)

\* The places of o holding an event of a kind; those of out.
EventsIn(ev, k) == {i \in DOMAIN ev : ev[i][1] = k}
Events(kind) == EventsIn(out, kind)

\* The places of o holding a publish to, or a subscription to, a topic.
To(o, kind, topic) == {i \in EventsIn(o, kind) : o[i][2] = topic}

\* o records a read of the sensor that failed.
FailedRead(o) == \E i \in EventsIn(o, "read22") : o[i][2] # DHTLIB_OK

\* The characters of a string.
Chars(str) == {str[i] : i \in DOMAIN str}

\* C1: once setup() has run, the MQ address in memory is never the empty
\* string, whatever /mq.addr held and whatever requests were handled.
C1_EndpointNeverEmpty == pc # "boot" => mqtt_server # <<>>

\* C2: with the file system mounted, the address that setup() makes live is
\* the value of the last "/?mq=" request handled, when that value is not
\* empty, and the default when no such request was ever handled.
C2_PersistsAcrossRestarts ==
    [][(pc = "boot" /\ pc' = "top" /\ fs_ok)
           => IF last_mq = NoReq
              THEN mqtt_server' = DEFAULT_MQ_SERVER
              ELSE (last_mq # <<>> => mqtt_server' = last_mq)]_vars

\* A round trip through the config store has been made with the string s.
RoundTripDone == probe.step = "read"

\* C3, as stated: for a string of 1 to 63 characters without space or '&',
\* read_file returns what write_file was given (the file opening both times).
C3_RoundTripAsStated ==
    (/\ RoundTripDone
     /\ fs_ok
     /\ Len(probe.s) \in 1..(ServerSize - 1)
     /\ Chars(probe.s) \cap {SP, AMP} = {})
        => probe.r = probe.s

\* C3, amended: for a string of 1 to 63 characters without space, '&',
\* carriage return or line feed, and with the file opening for the write and
\* for the read, read_file returns what write_file was given.
C3_RoundTrip ==
    (/\ RoundTripDone
     /\ fs_ok
     /\ Len(probe.s) \in 1..(ServerSize - 1)
     /\ Chars(probe.s) \cap {SP, AMP, CR, LF} = {})
        => probe.r = probe.s

\* C3 witness: the longest string that fits has made the round trip.
C3_Witness ==
    /\ RoundTripDone
    /\ fs_ok
    /\ probe.s = Rep("a", ServerSize - 1)
    /\ probe.r = probe.s

\* C4: when /mq.addr does not exist, is empty, or the file system is not
\* mounted, setup() completes with the default address 10.0.0.10.
C4_DefaultFallback ==
    [][(pc = "boot" /\ (file = NoFile \/ file = <<>> \/ ~fs_ok))
           => (pc' = "top" /\ mqtt_server' = DEFAULT_MQ_SERVER)]_vars

\* C4 witness: setup() has just run on a device whose /mq.addr does not exist,
\* and the address is the default.
C4_Witness ==
    /\ pc = "top"
    /\ ms = BootMillis
    /\ last_read = 0
    /\ file = NoFile
    /\ mqtt_server = DEFAULT_MQ_SERVER


\* C5: a read of the sensor that fails, with whatever error code, leaves
\* last_temperature and last_humidity as they were and publishes nothing.
C5_FailurePreservesReading ==
    [][(pc = "sample" /\ FailedRead(out'))
           => /\ last_temperature' = last_temperature
              /\ last_humidity' = last_humidity
              /\ EventsIn(out', "publish") = {}]_vars

\* C5 witness: after a successful reading, a later read has failed with a
\* checksum error.
C5_Witness ==
    /\ pc = "http"
    /\ last_sample # NoSample
    /\ \E i \in Events("read22") : out[i][2] = DHTLIB_ERROR_CHECKSUM

\* C6: after a successful read returning (t, h), last_temperature is t and
\* last_humidity is h, and exactly one message, carrying t and h, is published
\* to "temperature"; the status page shows the last successful reading.
C6_ReadingStoredAndPublished ==
    /\ \A i \in Events("read22") :
           out[i][2] = DHTLIB_OK
               => /\ last_temperature = out[i][3]
                  /\ last_humidity = out[i][4]
                  /\ Cardinality(To(out, "publish", "temperature")) = 1
                  /\ \A j \in To(out, "publish", "temperature") :
                         out[j][3] = Payload(out[i][3], out[i][4])
    /\ \A i \in Events("response") :
           (out[i][2] = 200 /\ last_sample # NoSample)
               => /\ out[i][3] = Print2(last_sample[1])
                  /\ out[i][4] = Print2(last_sample[2])

\* C7: the value that processHTTPRequest takes from a request line with the
\* pattern, and hands to write_file, is the line's characters after the first
\* "/?mq=" up to the first space or '&'.
C7_ExtractsValue == \A j \in Events("write_file") : out[j][2] = last_mq

\* C8: no more than 63 characters are ever stored through tmp, and the MQ
\* address in memory is never longer than 63 characters.
C8_BufferBounded ==
    /\ \A i \in Events("tmp") : out[i][2] <= TmpSize - 1
    /\ Len(mqtt_server) <= ServerSize - 1

\* C9: every request handled gets exactly one response: the redirect to this
\* device's root when the line holds the pattern, the page otherwise.
C9_OneResponsePerRequest ==
    \A i \in Events("request") :
        /\ Cardinality(Events("response")) = 1
        /\ \A j \in Events("response") :
               IF out[i][2] THEN out[j] = <<"response", 302, "http://<localIP>/">>
               ELSE out[j][2] = 200

\* C10: a step that connects publishes to "meta" once and subscribes to
\* "meta" once; a step taken while connected does neither; a failed attempt
\* leaves the client disconnected and does neither.
C10_MetaOncePerConnection ==
    [][/\ (~connected /\ connected')
           => /\ Cardinality(To(out', "publish", "meta")) = 1
              /\ Cardinality(To(out', "subscribe", "meta")) = 1
       /\ connected
           => /\ To(out', "publish", "meta") = {}
              /\ To(out', "subscribe", "meta") = {}
       /\ (pc = "reconnect" /\ retries' = retries + 1)
           => /\ ~connected'
              /\ To(out', "publish", "meta") = {}
              /\ To(out', "subscribe", "meta") = {}]_vars

\* C10 witness: the connection was lost and has been made again, after a
\* failed attempt.
C10_Witness ==
    /\ pc = "poll"
    /\ connected
    /\ retries = 1
    /\ last_read # 0
    /\ Cardinality(To(out, "publish", "meta")) = 1
    /\ Cardinality(To(out, "subscribe", "meta")) = 1

Reconfigures == \E i \in EventsIn(out', "request") : out'[i][2]

\* C12: reconfiguring while connected leaves the client connected, and puts
\* the request's value in place as the address that every later connection
\* attempt uses: the step leaves the value in mqtt_server, nothing but a
\* reconfiguration (or a restart) changes mqtt_server, and every attempt is
\* made to mqtt_server as it then is.
C12_ReconfigureKeepsConnection ==
    [][/\ Reconfigures
           => /\ connected => connected'
              /\ mqtt_server' = last_mq'
       /\ (~Reconfigures /\ pc # "boot" /\ pc' # "boot")
           => mqtt_server' = mqtt_server
       /\ \A i \in EventsIn(out', "connect") : out'[i][2] = mqtt_server']_vars

\* The samples taken since boot are more than the sampling period apart.
Spaced ==
    \A i \in 1..(Len(sampled) - 1) : sampled[i + 1] - sampled[i] > SamplePeriod

\* C13, as stated: the sensor is read in the first pass of loop(), and after
\* that only when more than 60 seconds have passed since it was last read,
\* whether that read succeeded or failed; in a run of 185 seconds it is read
\* 3 times and no more.
C13_CadenceAsStated ==
    /\ pc = "http" => Len(sampled) >= 1
    /\ Spaced
    /\ Len(sampled) <= 3

\* C13, amended: the sensor is read in the first pass of loop(), and after
\* that only when more than 60 seconds have passed since it was last read,
\* whether that read succeeded or failed; in a run of 185 seconds it is read
\* 4 times at most.
C13_Cadence ==
    /\ pc = "http" => Len(sampled) >= 1
    /\ Spaced
    /\ Len(sampled) <= 4

\* C13 witness: the sensor was read four times within 185 seconds of boot,
\* 60.001 seconds apart, every read failing.
C13_Witness ==
    /\ pc = "http"
    /\ Len(sampled) = 4
    /\ \A i \in 1..3 : sampled[i + 1] - sampled[i] = SamplePeriod + 1
    /\ sampled[4] <= RunMillis
    /\ last_sample = NoSample

\* C14: a pass of loop() goes through its steps in one order: the connection
\* is made sure of, client.loop() is called, the sensor is read if it is
\* due, and one HTTP client at most is served.  The step after the
\* connection check is entered with the client connected; the sensor is read
\* and a reading published only in the sampling step, and a request is
\* handled, one at most, only in the HTTP step that ends the pass.
C14_StepOrder ==
    [][/\ (pc' # pc /\ pc' # "boot")
           => \/ pc = "boot" /\ pc' = "top"
              \/ pc = "top" /\ connected /\ pc' = "poll"
              \/ pc = "top" /\ ~connected /\ pc' = "reconnect"
              \/ pc = "reconnect" /\ pc' = "poll"
              \/ pc = "poll" /\ pc' = "sample"
              \/ pc = "sample" /\ pc' = "http"
              \/ pc = "http" /\ pc' = "top"
       /\ (pc' = "poll" /\ pc # "poll") => connected'
       /\ (EventsIn(out', "read22") # {} \/ To(out', "publish", "temperature") # {})
           => pc = "sample"
       /\ (EventsIn(out', "request") # {} \/ EventsIn(out', "response") # {})
           => /\ pc = "http"
              /\ pc' \in {"top", "boot"}
              /\ Cardinality(EventsIn(out', "request")) = 1]_vars

\* C14 witness: a pass that had to reconnect, then read the sensor, has ended
\* with a request handled.
C14_Witness ==
    /\ pc = "top"
    /\ connected
    /\ retries = 1
    /\ sampled = <<BootMillis + RetryDelay>>
    /\ ms = BootMillis + RetryDelay
    /\ Cardinality(Events("request")) = 1
    /\ Cardinality(Events("response")) = 1

\* C15: when a request with "/?mq=" is answered, write_file has been called
\* and has returned before the response is sent: the call comes before the
\* response, and by then /mq.addr holds the value (the file system mounted)
\* or is as it was (the file not opening).
C15_WriteBeforeResponse ==
    [][\A i \in EventsIn(out', "request") :
           out'[i][2]
               => \A j \in EventsIn(out', "response") :
                      \E w \in EventsIn(out', "write_file") :
                          /\ w < j
                          /\ file' = IF fs_ok THEN out'[w][2] \o <<CR, LF>>
                                     ELSE file]_vars

\* C15 witness: a request with "/?mq=a" has been answered with the redirect,
\* /mq.addr holding the new value.
C15_Witness ==
    /\ pc = "top"
    /\ fs_ok
    /\ file # NoFile
    /\ file = <<"a", CR, LF>>
    /\ \E i \in Events("request") : out[i][2]
    /\ \E j \in Events("response") : out[j][2] = 302

\* C16: when /mq.addr cannot be opened for writing, a request with "/?mq=" is
\* still handled to its end: the sketch goes on to its next pass, the MQ
\* address in memory is the request's value, the client is sent the one
\* redirect, and /mq.addr is as it was.
C16_StorageUnavailable ==
    [][(~fs_ok /\ Reconfigures)
           => /\ pc' = "top"
              /\ mqtt_server' = last_mq'
              /\ Cardinality(EventsIn(out', "response")) = 1
              /\ \A j \in EventsIn(out', "response") : out'[j][2] = 302
              /\ file' = file]_vars

\* C17: while the sketch is in reconnect(), whether an attempt fails or
\* succeeds, the sensor is not read and no request is handled, and the MQ
\* address, /mq.addr and the last reading are left as they are.
C17_BlockedNotCorrupted ==
    [][(pc = "reconnect" /\ pc' # "boot")
           => /\ EventsIn(out', "read22") = {}
              /\ EventsIn(out', "request") = {}
              /\ EventsIn(out', "response") = {}
              /\ sampled' = sampled
              /\ mqtt_server' = mqtt_server
              /\ file' = file
              /\ last_temperature' = last_temperature
              /\ last_humidity' = last_humidity
              /\ last_sample' = last_sample]_vars

\* C17 witness: after a reading was taken and the MQ address set to "a", the
\* connection was lost and an attempt to connect again has failed; the
\* sketch is in reconnect(), the address and the reading as they were.
C17_Witness ==
    /\ pc = "reconnect"
    /\ ~connected
    /\ retries = 1
    /\ Cardinality(Events("delay")) = 1
    /\ mqtt_server = <<"a">>
    /\ last_sample # NoSample
    /\ last_temperature = last_sample[1]

\* C18: once setup() has run, the MQ address in memory and /mq.addr change
\* only in a step that handles a request whose line holds "/?mq=": reading
\* the sensor, connecting, a message arriving on "meta" and a request
\* without the pattern leave both as they are.
C18_OnlyRequestChangesConfig ==
    [][(pc # "boot" /\ pc' # "boot")
           => /\ (mqtt_server' # mqtt_server \/ file' # file)
                    => (pc = "http" /\ Reconfigures)
              /\ (\/ EventsIn(out', "read22") # {}
                  \/ EventsIn(out', "connect") # {}
                  \/ EventsIn(out', "callback") # {}
                  \/ \E i \in EventsIn(out', "request") : ~out'[i][2])
                    => (mqtt_server' = mqtt_server /\ file' = file)]_vars

\* C18 witness: the MQ address and /mq.addr hold "a", set by a request; an
\* attempt to connect has failed, the sensor has been read, and a request
\* without the pattern has just been answered.
C18_Witness ==
    /\ pc = "top"
    /\ \E i \in Events("request") : ~out[i][2]
    /\ retries = 1
    /\ sampled # <<>>
    /\ mqtt_server = <<"a">>
    /\ file # NoFile
    /\ file = <<"a", CR, LF>>

\* C19: with the file system mounted, at the end of every pass of loop() the
\* MQ address in memory is the one setup() would load from /mq.addr as it
\* now is: the first line of the file, or the default when the file is
\* missing or empty.
C19_RunningEqualsPersisted ==
    (fs_ok /\ pc = "top") => mqtt_server = LoadServer(read_file(file, fs_ok))

\* The time from one read of the sensor to the next is the sampling period at
\* least: the difference of the two values of millis(), as a long, is 60000
\* or more, or is negative (2^31 milliseconds or more have passed).
Apart(a, b) == SubLong(b, a) < 0 \/ SubLong(b, a) >= SamplePeriod

\* C20: whatever values millis() takes as a 32-bit long, 0 and the values
\* either side of its wrap-around included, the sensor is never read twice
\* within 60 seconds.
C20_TimerRobust ==
    \A i \in 1..(Len(sampled) - 1) : Apart(sampled[i], sampled[i + 1])

============================================================================
